---- MODULE Spec2Model ----
(***************************************************************************)
(* State-machine model of frontend/app/screens/HomeScreen.tsx: the React   *)
(* component that imports a labelled image folder, trains a dense head on  *)
(* MobileNet embeddings and predicts on a test image.                      *)
(*                                                                         *)
(* Every handler is modelled from its invocation (or from the resumption   *)
(* of an await) up to its next await or its end as one action.  A handler  *)
(* is a useCallback closure: the state it reads (net, trainFiles,          *)
(* headModel, testFile, labelCounts) is the state of the render in which   *)
(* it was invoked, so an asynchronous handler carries a copy of what it    *)
(* captured in its run record.  Characters are UTF-16 code units           *)
(* (47 = "/", 97 = "a", 120 = "x")          ; strings are sequences of     *)
(* them.  trainPreviews and testPreview are written but read by no         *)
(* handler and are left out; of the message log only the newest entry      *)
(* (messages[0]) is kept.                                                  *)
(***************************************************************************)
EXTENDS Integers, Sequences, FiniteSets, TLC

\* ------------------------------------------------------------------ bounds
\* Most examples the dataset may hold (imports beyond it are not offered).
MaxFiles == 3
\* Epochs one fit runs.  HomeScreen.tsx:290 sets 20; the model runs fewer, and
\* every epoch is the same step.
epochs == 2
\* Examples of the dataset whose extraction is followed past the second frame.
ManyFiles == 18

\* ------------------------------------------------------- program constants
\* extraction loop: a frame is yielded when i % 16 === 0 (HomeScreen.tsx:252)
YieldEvery == 16
\* "/" as a UTF-16 code unit (HomeScreen.tsx:164)
Slash == 47
\* the sentinel label "root" (HomeScreen.tsx:166)
Root == <<114, 111, 111, 116>>

NULL == "null"
\* useState<tf.LayersModel | null>(null): no model is installed
NoHead == 0
\* let featureDim: number | null = null
NoDim == 0
\* useState<Pred>(null); a prediction result r is <<r>>
NoPred == <<>>

\* ------------------------------------------------------------- environment
\* Files the folder picker may hand over: a MIME type, webkitRelativePath, name.
FileA == [type |-> "image/png", rel |-> <<97, 47, 120>>, name |-> <<120>>]
\* an image in a folder named "valueOf"
FileValueOf == [type |-> "image/png",
                rel |-> <<118, 97, 108, 117, 101, 79, 102, 47, 120>>, name |-> <<120>>]
FileText == [type |-> "text/plain", rel |-> <<97, 47, 120>>, name |-> <<120>>]
FileUniverse == {FileA, FileValueOf, FileText}
\* images in folders named "B" and "__proto__"
FileUpperB == [type |-> "image/png", rel |-> <<66, 47, 120>>, name |-> <<120>>]
FileProto == [type |-> "image/png",
              rel |-> <<95, 95, 112, 114, 111, 116, 111, 95, 95, 47, 120>>, name |-> <<120>>]
\* The folder selections of the runs that look at the label index.
LabelFiles == {FileA, FileUpperB, FileProto}
\* images at "r/a/x" and "a//x", and one that has no relative path (name "x")
FileNested == [type |-> "image/png", rel |-> <<114, 47, 97, 47, 120>>, name |-> <<120>>]
FileDoubleSlash == [type |-> "image/jpeg", rel |-> <<97, 47, 47, 120>>, name |-> <<120>>]
FileNoDir == [type |-> "image/png", rel |-> <<>>, name |-> <<120>>]
\* The folder selections of the runs that look at the derivation of labels.
PathFiles == {FileNested, FileDoubleSlash, FileNoDir, FileText}
PathBatches == {<<f>> : f \in PathFiles} \cup {<<f, g>> : f, g \in PathFiles}
\* One folder of ManyFiles images.
ManyBatches == {[k \in 1..ManyFiles |-> FileA]}
\* The embedding length when the extractor answers with one length throughout.
OneDim == {2}
LabelBatches == {<<f>> : f \in LabelFiles} \cup {<<f, g>> : f, g \in LabelFiles}
\* The batches a folder selection may deliver.
Batches == {<<>>} \cup {<<f>> : f \in FileUniverse} \cup {<<f, g>> : f, g \in FileUniverse}
\* Test images the test picker may hand over.
TestFiles == {"t1", "t2"}
\* Embedding lengths the extractor may return (the black box of net.infer).
Dims == {2, 3}
\* Values of one entry of the probability vector (scaled).
ProbVals == {1, 2}
\* Concurrent invocations of one asynchronous handler.
TrainOrder == <<"T1", "T2">>
PredOrder == <<"P1", "P2">>
TrainIds == {TrainOrder[k] : k \in 1..Len(TrainOrder)}
PredIds == {PredOrder[k] : k \in 1..Len(PredOrder)}

\* ------------------------------------------------------------------ helpers
Range(s) == {s[k] : k \in 1..Len(s)}

\* f.type && f.type.startsWith("image/")
IsImage(f) == f.type \in {"image/png", "image/jpeg"}

\* String.prototype.split("/"): the segments between slashes, empty ones kept.
RECURSIVE SplitFrom(_, _, _)
SplitFrom(s, cur, acc) ==
  IF s = <<>> THEN Append(acc, cur)
  ELSE IF Head(s) = Slash THEN SplitFrom(Tail(s), <<>>, Append(acc, cur))
  ELSE SplitFrom(Tail(s), Append(cur, Head(s)), acc)
Split(s) == SplitFrom(s, <<>>, <<>>)

\* .filter(Boolean): the non-empty segments.
FilterBoolean(parts) == SelectSeq(parts, LAMBDA p : p # <<>>)

\* As LabelOf, taking the last segment.
LabelOfLastSegment(f) ==
  LET rel == IF f.rel # <<>> THEN f.rel ELSE f.name
      parts == FilterBoolean(Split(rel))
  IN IF Len(parts) >= 2 THEN parts[Len(parts)] ELSE Root
\* label of one imported file (rel || name, split, filter, second-to-last or "root")
LabelOf(f) ==
  LET rel == IF f.rel # <<>> THEN f.rel ELSE f.name
      parts == FilterBoolean(Split(rel))
  IN IF Len(parts) >= 2 THEN parts[Len(parts) - 1] ELSE Root

\* Default Array.prototype.sort order of two strings: by UTF-16 code units.
RECURSIVE LexLess(_, _)
LexLess(s, t) ==
  IF t = <<>> THEN FALSE
  ELSE IF s = <<>> THEN TRUE
  ELSE IF Head(s) # Head(t) THEN Head(s) < Head(t)
  ELSE LexLess(Tail(s), Tail(t))

\* Array.from(new Set(seq)): first occurrences, in order.
RECURSIVE Dedup(_, _)
Dedup(s, acc) ==
  IF s = <<>> THEN acc
  ELSE Dedup(Tail(s), IF Head(s) \in Range(acc) THEN acc ELSE Append(acc, Head(s)))

\* .sort(): insertion of each element before the first greater one.
RECURSIVE InsertSorted(_, _)
InsertSorted(x, s) ==
  IF s = <<>> THEN <<x>>
  ELSE IF LexLess(x, Head(s)) THEN <<x>> \o s
  ELSE <<Head(s)>> \o InsertSorted(x, Tail(s))
RECURSIVE SortLabels(_)
SortLabels(s) == IF s = <<>> THEN <<>> ELSE InsertSorted(Head(s), SortLabels(Tail(s)))

\* labelSet of onTrainHead: Array.from(new Set(trainFiles.map(t => t.label))).sort()
BuildLabelSet(files) == SortLabels(Dedup(files, <<>>))

\* "__proto__": on a plain object this name is an accessor of Object.prototype.
\* Reading it yields Object.prototype; assigning a number or a string to it runs
\* the setter, which ignores a value that is no object: no own property is made.
ProtoKey == <<95, 95, 112, 114, 111, 116, 111, 95, 95>>
SetterKeys == {ProtoKey}

\* label2idx: labelSet.forEach((lab, idx) => label2idx[lab] = idx)  (0-based)
BuildLabel2Idx(labelSet) ==
  [lab \in Range(labelSet) \ SetterKeys |->
     (CHOOSE k \in 1..Len(labelSet) : labelSet[k] = lab) - 1]

\* tf.oneHot(tf.tensor1d([idx]), numClasses): shape [1, numClasses]
OneHotRow(idx, numClasses) == [k \in 1..numClasses |-> IF k = idx + 1 THEN 1 ELSE 0]
\* .squeeze(): every dimension of size 1 is removed, so [1, 1] becomes a scalar
SqueezedShape(numClasses) == IF numClasses = 1 THEN <<>> ELSE <<numClasses>>

\* Property names a plain object ({...labelCounts}) inherits from Object.prototype,
\* among the labels of the model: "valueOf" and "__proto__".
InheritedKeys == {<<118, 97, 108, 117, 101, 79, 102>>, ProtoKey}
\* A value of labelCounts that is no number: the text of an inherited function
\* followed by one "1" per addition (function + 1 and string + 1 concatenate).
NotANumber == -1

\* counts[label]: an own property, else an inherited one, else undefined;
\* ?? 0 replaces undefined only; + 1 adds to a number and concatenates otherwise.
Bump(counts, label) ==
  LET got == IF label \in DOMAIN counts THEN counts[label]
             ELSE IF label \in InheritedKeys THEN NotANumber
             ELSE 0
      next == IF got = NotANumber THEN NotANumber ELSE got + 1
  IN IF label \in SetterKeys THEN counts
     ELSE [l \in DOMAIN counts \cup {label} |-> IF l = label THEN next ELSE counts[l]]

\* obj[key] of a plain object whose own properties are numbers
ObjGet(obj, key) ==
  IF key \in DOMAIN obj THEN obj[key]
  ELSE IF key \in InheritedKeys THEN NotANumber
  ELSE NULL
\* tf.tensor1d([v], "int32"): new Int32Array([v]) turns what is no number into 0
ToInt32(v) == IF v \in Nat THEN v ELSE 0

EmptyCounts == [l \in {} |-> 0]

\* ---------------------------------------------------------------- variables
VARIABLES
  initPc,       \* position of the init effect
  ready, loading, messages, net,
  trainFiles,   \* sequence of labels (the example's file is opaque)
  labelCounts,
  headModel,    \* NoHead or the index of the installed model in heads
  heads,        \* every tf.sequential() model created, in creation order
  testFile, pred,
  trainRuns,    \* TrainIds -> the invocation of onTrainHead in that slot
  predRuns,     \* PredIds -> the invocation of onPredictBtn in that slot
  tensors,      \* live tensors owned by no running handler and no model
  budget        \* handler invocations the user may still make, per handler

vars == <<initPc, ready, loading, messages, net, trainFiles, labelCounts,
          headModel, heads, testFile, pred, trainRuns, predRuns, tensors, budget>>

IdleRun == [pc |-> "idle"]

\* The user's invocations are bounded per handler, and the dataset by files; the
\* program has no such state.
BudgetTwoImports ==
  [import |-> 2, train |-> 1, predict |-> 1, clear |-> 1, select |-> 1,
   files |-> MaxFiles]
BudgetTwoTrains ==
  [import |-> 1, train |-> 2, predict |-> 1, clear |-> 1, select |-> 1,
   files |-> MaxFiles]
BudgetOneEach ==
  [import |-> 1, train |-> 1, predict |-> 1, clear |-> 1, select |-> 1,
   files |-> MaxFiles]
BudgetTwoPredicts ==
  [import |-> 1, train |-> 1, predict |-> 2, clear |-> 1, select |-> 2,
   files |-> MaxFiles]
BudgetManyFiles ==
  [import |-> 1, train |-> 1, predict |-> 1, clear |-> 1, select |-> 1,
   files |-> ManyFiles]
Spend(handler) ==
  /\ budget[handler] > 0
  /\ budget' = [budget EXCEPT ![handler] = @ - 1]

\* The component as mounted: every useState initial value, no handler running.
Mounted ==
  /\ initPc = "Uninitialized"
  /\ ready = FALSE
  /\ loading = NULL
  /\ messages = NULL
  /\ net = NULL
  /\ trainFiles = <<>>
  /\ labelCounts = EmptyCounts
  /\ headModel = NoHead
  /\ heads = <<>>
  /\ testFile = NULL
  /\ pred = NoPred
  /\ trainRuns = [t \in TrainIds |-> IdleRun]
  /\ predRuns = [p \in PredIds |-> IdleRun]
  /\ tensors = 0

Init == Mounted /\ budget = BudgetTwoImports
InitTwoTrains == Mounted /\ budget = BudgetTwoTrains
InitOneEach == Mounted /\ budget = BudgetOneEach
InitTwoPredicts == Mounted /\ budget = BudgetTwoPredicts
InitManyFiles == Mounted /\ budget = BudgetManyFiles

\* ------------------------------------------------------------- init effect
\* useEffect: up to the first await (tf.setBackend / tf.ready)
InitStart ==
  /\ initPc = "Uninitialized"
  /\ initPc' = "BackendPreparing"
  /\ loading' = "Preparing TensorFlow.js backend..."
  /\ UNCHANGED <<ready, messages, net, trainFiles, labelCounts, headModel, heads,
                 testFile, pred, trainRuns, predRuns, tensors, budget>>

\* tf.ready() resolved: up to await mobilenet.load()
InitBackendReady ==
  /\ initPc = "BackendPreparing"
  /\ initPc' = "BaseModelLoading"
  /\ messages' = "TFJS backend"
  /\ loading' = "Loading MobileNet (pretrained base)..."
  /\ UNCHANGED <<ready, net, trainFiles, labelCounts, headModel, heads,
                 testFile, pred, trainRuns, predRuns, tensors, budget>>

\* As InitModelLoaded, without setNet(model).
InitModelLoadedNoNet ==
  /\ initPc = "BaseModelLoading"
  /\ initPc' = "Ready"
  /\ ready' = TRUE
  /\ loading' = NULL
  /\ messages' = "Ready"
  /\ UNCHANGED <<net, trainFiles, labelCounts, headModel, heads,
                 testFile, pred, trainRuns, predRuns, tensors, budget>>
\* mobilenet.load() resolved
InitModelLoaded ==
  /\ initPc = "BaseModelLoading"
  /\ initPc' = "Ready"
  /\ net' = "mobilenet"
  /\ ready' = TRUE
  /\ loading' = NULL
  /\ messages' = "Ready"
  /\ UNCHANGED <<trainFiles, labelCounts, headModel, heads,
                 testFile, pred, trainRuns, predRuns, tensors, budget>>

\* either await rejected: the catch block
InitFail ==
  /\ initPc \in {"BackendPreparing", "BaseModelLoading"}
  /\ initPc' = "Failed"
  /\ loading' = NULL
  /\ messages' = "[ERROR] init"
  /\ UNCHANGED <<ready, net, trainFiles, labelCounts, headModel, heads,
                 testFile, pred, trainRuns, predRuns, tensors, budget>>

\* ---------------------------------------------------------------- onAddFolder
\* The loop over files: the examples, the counts and the number added.
RECURSIVE ScanFiles(_, _)
ScanFiles(files, acc) ==
  IF files = <<>> THEN acc
  ELSE IF ~IsImage(Head(files)) THEN ScanFiles(Tail(files), acc)
  ELSE LET label == LabelOf(Head(files))
       IN ScanFiles(Tail(files),
                    [newTrain |-> Append(acc.newTrain, label),
                     counts |-> Bump(acc.counts, label),
                     added |-> acc.added + 1])

\* counts starts as a copy of the labelCounts the closure captured
ScanStart(counts) == [newTrain |-> <<>>, counts |-> counts, added |-> 0]

\* onAddFolder has no await: it runs to its end in one step.
OnAddFolder(files) ==
  LET r == ScanFiles(files, ScanStart(labelCounts))
  IN /\ Spend("import")
     /\ Len(trainFiles) + r.added <= budget["files"]
     /\ IF r.added = 0
        THEN /\ messages' = "No images found in the selected folder."
             /\ UNCHANGED <<trainFiles, labelCounts>>
        ELSE /\ trainFiles' = trainFiles \o r.newTrain
             /\ labelCounts' = r.counts
             /\ messages' = "Imported training image(s)."
     /\ loading' = NULL
     /\ UNCHANGED <<initPc, ready, net, headModel, heads, testFile, pred,
                    trainRuns, predRuns, tensors>>

\* URL.createObjectURL(f) threw on an image of the batch: the catch block reports,
\* the finally block clears loading; newTrain and counts were locals.
OnAddFolderFail(files) ==
  /\ Spend("import")
  /\ \E k \in 1..Len(files) : IsImage(files[k])
  /\ messages' = "[ERROR] folder import"
  /\ loading' = NULL
  /\ UNCHANGED <<initPc, ready, net, trainFiles, labelCounts, headModel, heads,
                 testFile, pred, trainRuns, predRuns, tensors>>

\* ----------------------------------------------------------------- onClearAll
DisposeHeadSkipped(hs, h) == hs
\* if (headModel) headModel.dispose(), on the model the closure captured
DisposeHead(hs, h) ==
  IF h = NoHead THEN hs ELSE [hs EXCEPT ![h].disposed = TRUE]

OnClearAll ==
  /\ Spend("clear")
  /\ trainFiles' = <<>>
  /\ labelCounts' = EmptyCounts
  /\ testFile' = NULL
  /\ pred' = NoPred
  /\ heads' = DisposeHead(heads, headModel)
  /\ headModel' = NoHead
  /\ messages' = "Cleared training data, test image, and head model."
  /\ UNCHANGED <<initPc, ready, loading, net, trainRuns, predRuns, tensors>>

\* --------------------------------------------------------------- onSelectTest
OnSelectTest(file) ==
  /\ Spend("select")
  /\ pred' = NoPred
  /\ testFile' = file
  /\ UNCHANGED <<initPc, ready, loading, messages, net, trainFiles, labelCounts,
                 headModel, heads, trainRuns, predRuns, tensors>>

\* ---------------------------------------------------------------- onTrainHead
\* The slot a new invocation takes: the first idle one.
FirstIdle(order, runs) ==
  LET idle == SelectSeq(order, LAMBDA x : runs[x].pc = "idle")
  IN IF idle = <<>> THEN NULL ELSE Head(idle)

\* The run record onTrainHead's closure and locals amount to at its first await.
NewTrainRun ==
  LET labelSet == BuildLabelSet(trainFiles)
  IN [pc |-> "load", i |-> 0,
      files |-> trainFiles,
      labelSet |-> labelSet,
      label2idx |-> BuildLabel2Idx(labelSet),
      numClasses |-> Len(labelSet),
      xs |-> <<>>, ys |-> <<>>, featureDim |-> NoDim,
      aux |-> 0,          \* tf.tensor1d([idx]) and tf.oneHot(...) of each example
      unyielded |-> 0,    \* examples extracted since the last tf.nextFrame() resolved
      model |-> NoHead,   \* index in heads once tf.sequential() has run
      epoch |-> 0,
      head0 |-> headModel \* the model installed when the run was invoked
     ]

\* As OnTrainHead, without the guard on net.
OnTrainHeadNoNetCheck(t) ==
  /\ Spend("train")
  /\ t = FirstIdle(TrainOrder, trainRuns)
  /\ IF Len(trainFiles) = 0
     THEN /\ messages' = "No training images. Please import a folder first."
          /\ UNCHANGED <<loading, pred, headModel, trainRuns>>
     ELSE /\ loading' = "Extracting features & training head model..."
          /\ pred' = NoPred
          /\ headModel' = NoHead
          /\ messages' = "Training head model..."
          /\ trainRuns' = [trainRuns EXCEPT ![t] = NewTrainRun]
  /\ UNCHANGED <<initPc, ready, net, trainFiles, labelCounts, heads, testFile,
                 predRuns, tensors>>
\* As OnTrainHead, with setPred(null) and setHeadModel(null) moved before the guards.
OnTrainHeadResetsFirst(t) ==
  /\ Spend("train")
  /\ t = FirstIdle(TrainOrder, trainRuns)
  /\ pred' = NoPred
  /\ headModel' = NoHead
  /\ IF net = NULL
     THEN /\ messages' = "Base model (MobileNet) is not ready yet."
          /\ UNCHANGED <<loading, trainRuns>>
     ELSE IF Len(trainFiles) = 0
     THEN /\ messages' = "No training images. Please import a folder first."
          /\ UNCHANGED <<loading, trainRuns>>
     ELSE /\ loading' = "Extracting features & training head model..."
          /\ messages' = "Training head model..."
          /\ trainRuns' = [trainRuns EXCEPT ![t] = NewTrainRun]
  /\ UNCHANGED <<initPc, ready, net, trainFiles, labelCounts, heads, testFile,
                 predRuns, tensors>>
\* Invocation of onTrainHead, up to the first await fileToImage(file).
OnTrainHead(t) ==
  /\ Spend("train")
  /\ t = FirstIdle(TrainOrder, trainRuns)
  /\ IF net = NULL
     THEN /\ messages' = "Base model (MobileNet) is not ready yet."
          /\ UNCHANGED <<loading, pred, headModel, trainRuns>>
     ELSE IF Len(trainFiles) = 0
     THEN /\ messages' = "No training images. Please import a folder first."
          /\ UNCHANGED <<loading, pred, headModel, trainRuns>>
     ELSE /\ loading' = "Extracting features & training head model..."
          /\ pred' = NoPred
          /\ headModel' = NoHead
          /\ messages' = "Training head model..."
          /\ trainRuns' = [trainRuns EXCEPT ![t] = NewTrainRun]
  /\ UNCHANGED <<initPc, ready, net, trainFiles, labelCounts, heads, testFile,
                 predRuns, tensors>>

\* Tensors a run holds (xs, ys, the tensor1d and oneHot of each example, xTrain and
\* yTrain): they stay live when the run ends without disposing them.
HeldByTrain(r) ==
  Len(r.xs) + Len(r.ys) + r.aux + (IF r.pc \in {"fit", "epochFrame"} THEN 2 ELSE 0)

\* As TrainCatch, without the finally block's setLoading(null).
TrainCatchKeepsLoading(t, msg, held) ==
  /\ messages' = msg
  /\ tensors' = tensors + held
  /\ trainRuns' = [trainRuns EXCEPT ![t] = IdleRun]
  /\ UNCHANGED <<initPc, ready, loading, net, trainFiles, labelCounts, headModel, heads,
                 testFile, pred, predRuns, budget>>
\* catch + finally of onTrainHead
TrainCatch(t, msg, held) ==
  /\ messages' = msg
  /\ loading' = NULL
  /\ tensors' = tensors + held
  /\ trainRuns' = [trainRuns EXCEPT ![t] = IdleRun]
  /\ UNCHANGED <<initPc, ready, net, trainFiles, labelCounts, headModel, heads,
                 testFile, pred, predRuns, budget>>

\* tf.stack: every tensor must have the shape of the first
StackOk(dims) == \A k \in 1..Len(dims) : dims[k] = dims[1]

\* The model tf.sequential() builds (dense inputShape [featureDim], ..., units numClasses)
NewHead(r) ==
  [inputDim |-> r.featureDim, units |-> r.numClasses,
   idx2label |-> <<>>, label2idx |-> EmptyCounts,
   disposed |-> FALSE, epochsDone |-> 0,
   xShape |-> <<Len(r.xs), r.featureDim>>,
   yShape |-> <<Len(r.ys)>> \o SqueezedShape(r.numClasses),
   trainedOn |-> r.files]

\* As TrainBuildAndFit, with setHeadModel(model) moved before the await of model.fit.
TrainBuildAndFitInstalls(t, r) ==
  /\ heads' = Append(heads, NewHead(r))
  /\ headModel' = Len(heads) + 1
  /\ trainRuns' = [trainRuns EXCEPT ![t] =
        [r EXCEPT !.pc = "fit", !.xs = <<>>, !.ys = <<>>, !.model = Len(heads) + 1]]
  /\ UNCHANGED <<initPc, ready, loading, messages, net, trainFiles, labelCounts,
                 testFile, pred, predRuns, tensors, budget>>

\* The stacked matrices exist: xs and ys are disposed, the model is built and
\* compiled, and model.fit is called and awaited.
TrainBuildAndFit(t, r) ==
  /\ heads' = Append(heads, NewHead(r))
  /\ trainRuns' = [trainRuns EXCEPT ![t] =
        [r EXCEPT !.pc = "fit", !.xs = <<>>, !.ys = <<>>, !.model = Len(heads) + 1]]
  /\ UNCHANGED <<initPc, ready, loading, messages, net, trainFiles, labelCounts,
                 headModel, testFile, pred, predRuns, tensors, budget>>

\* After example r.i was pushed: the rest of the synchronous stretch, i.e. the next
\* await fileToImage, or the end of the loop, the stacking and the call of model.fit.
TrainContinue(t, r) ==
  IF r.i + 1 < Len(r.files)
  THEN /\ trainRuns' = [trainRuns EXCEPT ![t] = [r EXCEPT !.pc = "load", !.i = r.i + 1]]
       /\ UNCHANGED <<initPc, ready, loading, messages, net, trainFiles, labelCounts,
                      headModel, heads, testFile, pred, predRuns, tensors, budget>>
  ELSE IF ~StackOk(r.xs)
  THEN TrainCatch(t, "[ERROR] train: stack", HeldByTrain(r))
  ELSE TrainBuildAndFit(t, r)

NeedsFrameFirstOnly(i) == i = 0
\* if (i % 16 === 0) await tf.nextFrame()
NeedsFrame(i) == i % YieldEvery = 0

\* fileToImage resolved for example i: embedding of length d, pushes, maybe a frame.
TrainImageLoaded(t, d) ==
  LET r == trainRuns[t]
      idx == ToInt32(ObjGet(r.label2idx, r.files[r.i + 1]))
      r2 == [r EXCEPT !.featureDim = IF r.featureDim = NoDim THEN d ELSE r.featureDim,
                      !.xs = Append(r.xs, d),
                      !.ys = Append(r.ys, OneHotRow(idx, r.numClasses)),
                      !.aux = r.aux + 2,
                      !.unyielded = r.unyielded + 1]
  IN /\ r.pc = "load"
     /\ IF NeedsFrame(r.i)
        THEN /\ trainRuns' = [trainRuns EXCEPT ![t] = [r2 EXCEPT !.pc = "frame"]]
             /\ UNCHANGED <<initPc, ready, loading, messages, net, trainFiles,
                            labelCounts, headModel, heads, testFile, pred, predRuns,
                            tensors, budget>>
        ELSE TrainContinue(t, r2)

\* tf.nextFrame() resolved inside the extraction loop
TrainFrame(t) ==
  /\ trainRuns[t].pc = "frame"
  /\ TrainContinue(t, [trainRuns[t] EXCEPT !.unyielded = 0])

\* what the catch block reports: `[ERROR] train: ${e.message}`
ExtractErrors == {"[ERROR] train: decode", "[ERROR] train: infer"}
TrainErrors == ExtractErrors \cup {"[ERROR] train: stack", "[ERROR] train: fit"}

\* fileToImage rejected, or net.infer threw
TrainExtractFail(t, why) ==
  /\ trainRuns[t].pc = "load"
  /\ TrainCatch(t, why, HeldByTrain(trainRuns[t]))

\* One epoch of model.fit and its onEpochEnd callback, up to its await tf.nextFrame()
TrainEpoch(t) ==
  LET r == trainRuns[t]
  IN /\ r.pc = "fit"
     /\ r.epoch < epochs
     /\ trainRuns' = [trainRuns EXCEPT ![t].epoch = r.epoch + 1, ![t].pc = "epochFrame"]
     /\ heads' = [heads EXCEPT ![r.model].epochsDone = r.epoch + 1]
     /\ messages' = "Epoch"
     /\ UNCHANGED <<initPc, ready, loading, net, trainFiles, labelCounts, headModel,
                    testFile, pred, predRuns, tensors, budget>>

\* tf.nextFrame() resolved inside onEpochEnd: the callback returns to model.fit
TrainEpochFrame(t) ==
  /\ trainRuns[t].pc = "epochFrame"
  /\ trainRuns' = [trainRuns EXCEPT ![t].pc = "fit"]
  /\ UNCHANGED <<initPc, ready, loading, messages, net, trainFiles, labelCounts,
                 headModel, heads, testFile, pred, predRuns, tensors, budget>>

\* model.fit rejected
TrainFitFail(t) ==
  /\ trainRuns[t].pc = "fit"
  /\ TrainCatch(t, "[ERROR] train: fit", HeldByTrain(trainRuns[t]))

AttachedLabelSetOfDataset(r) == BuildLabelSet(trainFiles)
\* (model as any).__idx2label = labelSet: the labelSet built at the run's start
AttachedLabelSet(r) == r.labelSet

\* model.fit resolved: dispose, attach the label mapping, setHeadModel, finally
TrainFitDone(t) ==
  LET r == trainRuns[t]
  IN /\ r.pc = "fit"
     /\ r.epoch = epochs
     /\ heads' = [heads EXCEPT ![r.model].label2idx = r.label2idx,
                               ![r.model].idx2label = AttachedLabelSet(r)]
     /\ headModel' = r.model
     /\ messages' = "Training finished. You can now run predictions."
     /\ loading' = NULL
     /\ tensors' = tensors + r.aux
     /\ trainRuns' = [trainRuns EXCEPT ![t] = IdleRun]
     /\ UNCHANGED <<initPc, ready, net, trainFiles, labelCounts, testFile, pred,
                    predRuns, budget>>

\* --------------------------------------------------------------- onPredictBtn
\* As OnPredictBtn, with setPred(null) moved before the guards.
OnPredictBtnResetsFirst(p) ==
  /\ Spend("predict")
  /\ p = FirstIdle(PredOrder, predRuns)
  /\ pred' = NoPred
  /\ IF net = NULL
     THEN /\ messages' = "Base model is not ready yet."
          /\ UNCHANGED <<loading, predRuns>>
     ELSE IF headModel = NoHead
     THEN /\ messages' = "Head model is not trained yet. Click 'Train head model' first."
          /\ UNCHANGED <<loading, predRuns>>
     ELSE IF testFile = NULL
     THEN /\ messages' = "Pick a test image first."
          /\ UNCHANGED <<loading, predRuns>>
     ELSE /\ loading' = "Running inference..."
          /\ predRuns' = [predRuns EXCEPT ![p] =
                [pc |-> "load", headModel |-> headModel, testFile |-> testFile,
                 featDim |-> NoDim, probs |-> <<>>]]
          /\ UNCHANGED messages
  /\ UNCHANGED <<initPc, ready, net, trainFiles, labelCounts, headModel, heads,
                 testFile, trainRuns, tensors>>
\* Invocation of onPredictBtn, up to await fileToImage(testFile).
OnPredictBtn(p) ==
  /\ Spend("predict")
  /\ p = FirstIdle(PredOrder, predRuns)
  /\ IF net = NULL
     THEN /\ messages' = "Base model is not ready yet."
          /\ UNCHANGED <<loading, pred, predRuns>>
     ELSE IF headModel = NoHead
     THEN /\ messages' = "Head model is not trained yet. Click 'Train head model' first."
          /\ UNCHANGED <<loading, pred, predRuns>>
     ELSE IF testFile = NULL
     THEN /\ messages' = "Pick a test image first."
          /\ UNCHANGED <<loading, pred, predRuns>>
     ELSE /\ loading' = "Running inference..."
          /\ pred' = NoPred
          /\ predRuns' = [predRuns EXCEPT ![p] =
                [pc |-> "load", headModel |-> headModel, testFile |-> testFile,
                 featDim |-> NoDim, probs |-> <<>>]]
          /\ UNCHANGED messages
  /\ UNCHANGED <<initPc, ready, net, trainFiles, labelCounts, headModel, heads,
                 testFile, trainRuns, tensors>>

\* catch + finally of onPredictBtn; held tensors were not disposed
PredictCatch(p, msg, held) ==
  /\ messages' = msg
  /\ loading' = NULL
  /\ tensors' = tensors + held
  /\ predRuns' = [predRuns EXCEPT ![p] = IdleRun]
  /\ UNCHANGED <<initPc, ready, net, trainFiles, labelCounts, headModel, heads,
                 testFile, pred, trainRuns, budget>>

\* fileToImage rejected
PredictDecodeFail(p) ==
  /\ predRuns[p].pc = "load"
  /\ PredictCatch(p, "[ERROR] predict: decode", 0)

PredictThrowsUnchecked(h, d) ==
  IF h.disposed THEN "[ERROR] predict: disposed" ELSE NULL
\* headModel.predict(feat) on a [1, d] input: LayersModel.predict throws when a
\* weight it reads is disposed, and when the input's shape is not the model's
\* input shape; else it returns a [1, units] tensor.
PredictThrows(h, d) ==
  IF h.disposed THEN "[ERROR] predict: disposed"
  ELSE IF d # h.inputDim THEN "[ERROR] predict: shape"
  ELSE NULL

\* fileToImage resolved: the embedding, the forward pass, up to await probsTensor.data()
PredictImageLoaded(p, d, probs) ==
  LET r == predRuns[p]
      h == heads[r.headModel]
      err == PredictThrows(h, d)
  IN /\ r.pc = "load"
     /\ IF err # NULL
        THEN PredictCatch(p, err, 1)
        ELSE /\ probs \in [1..h.units -> ProbVals]
             /\ predRuns' = [predRuns EXCEPT ![p] =
                   [r EXCEPT !.pc = "data", !.featDim = d, !.probs = probs]]
             /\ UNCHANGED <<initPc, ready, loading, messages, net, trainFiles,
                            labelCounts, headModel, heads, testFile, pred, trainRuns,
                            tensors, budget>>

\* net.infer or the forward pass threw for another reason
PredictInferFail(p) ==
  /\ predRuns[p].pc = "load"
  /\ PredictCatch(p, "[ERROR] predict: infer", 0)

\* probsTensor.data() rejected
PredictDataFail(p) ==
  /\ predRuns[p].pc = "data"
  /\ PredictCatch(p, "[ERROR] predict: data", 2)

\* what the catch block reports: `[ERROR] predict: ${e.message}`
PredictErrors ==
  {"[ERROR] predict: decode", "[ERROR] predict: infer", "[ERROR] predict: data",
   "[ERROR] predict: shape", "[ERROR] predict: disposed",
   "[ERROR] predict: Label mapping is inconsistent"}

\* confidences: labelSet.forEach((lab, idx) => confidences[lab] = probs[idx])
BuildConfidences(labelSet, probs) ==
  [lab \in Range(labelSet) \ SetterKeys |->
     probs[CHOOSE k \in 1..Len(labelSet) :
             /\ labelSet[k] = lab
             /\ \A j \in 1..Len(labelSet) : labelSet[j] = lab => j <= k]]

\* As BestIdxFrom, comparing with >= instead of >.
RECURSIVE BestIdxFromLast(_, _, _)
BestIdxFromLast(probs, i, bestIdx) ==
  IF i >= Len(probs) THEN bestIdx
  ELSE BestIdxFromLast(probs, i + 1, IF probs[i + 1] >= probs[bestIdx + 1] THEN i ELSE bestIdx)
\* for (i = 1; i < probs.length; i++) if (probs[i] > probs[bestIdx]) bestIdx = i
RECURSIVE BestIdxFrom(_, _, _)
BestIdxFrom(probs, i, bestIdx) ==
  IF i >= Len(probs) THEN bestIdx
  ELSE BestIdxFrom(probs, i + 1, IF probs[i + 1] > probs[bestIdx + 1] THEN i ELSE bestIdx)
BestIdx(probs) == BestIdxFrom(probs, 1, 0)

\* The labels a prediction is built on: (headModel as any).__idx2label || []
PredictLabelSet(r) == heads[r.headModel].idx2label

\* probsTensor.data() resolved: to the end of onPredictBtn
PredictDataReady(p) ==
  LET r == predRuns[p]
      labelSet == PredictLabelSet(r)
  IN /\ r.pc = "data"
     /\ IF Len(labelSet) = 0 \/ Len(r.probs) # Len(labelSet)
        THEN PredictCatch(p, "[ERROR] predict: Label mapping is inconsistent", 0)
        ELSE /\ pred' = <<[label |-> labelSet[BestIdx(r.probs) + 1],
                           confidences |-> BuildConfidences(labelSet, r.probs),
                           probs |-> r.probs,
                           headModel |-> r.headModel, testFile |-> r.testFile,
                           featDim |-> r.featDim]>>
             /\ messages' = "Prediction"
             /\ loading' = NULL
             /\ predRuns' = [predRuns EXCEPT ![p] = IdleRun]
             /\ UNCHANGED <<initPc, ready, net, trainFiles, labelCounts, headModel,
                            heads, testFile, trainRuns, tensors, budget>>

\* Every step but the folder imports and the resumption after fileToImage.
NextButImportAndLoad ==
  \/ InitStart
  \/ InitBackendReady
  \/ InitModelLoaded
  \/ InitFail
  \/ OnClearAll
  \/ \E file \in TestFiles \cup {NULL} : OnSelectTest(file)
  \/ \E t \in TrainIds : OnTrainHead(t)
  \/ \E t \in TrainIds : TrainFrame(t)
  \/ \E t \in TrainIds, why \in ExtractErrors : TrainExtractFail(t, why)
  \/ \E t \in TrainIds : TrainEpoch(t)
  \/ \E t \in TrainIds : TrainEpochFrame(t)
  \/ \E t \in TrainIds : TrainFitFail(t)
  \/ \E t \in TrainIds : TrainFitDone(t)
  \/ \E p \in PredIds : OnPredictBtn(p)
  \/ \E p \in PredIds : PredictDecodeFail(p)
  \/ \E p \in PredIds, d \in Dims :
        \E probs \in UNION {[1..n -> ProbVals] : n \in 1..MaxFiles} :
           PredictImageLoaded(p, d, probs)
  \/ \E p \in PredIds : PredictInferFail(p)
  \/ \E p \in PredIds : PredictDataFail(p)
  \/ \E p \in PredIds : PredictDataReady(p)

\* Every step but the folder imports.
NextButImport ==
  \/ \E t \in TrainIds, d \in Dims : TrainImageLoaded(t, d)
  \/ NextButImportAndLoad

Next ==
  \/ \E files \in Batches : OnAddFolder(files)
  \/ \E files \in Batches : OnAddFolderFail(files)
  \/ NextButImport
\* The same steps, the folder selections being those of LabelBatches.
NextLabels ==
  \/ \E files \in LabelBatches : OnAddFolder(files)
  \/ \E files \in LabelBatches : OnAddFolderFail(files)
  \/ NextButImport
\* The same steps, the folder selections being those of PathBatches.
NextPaths ==
  \/ \E files \in PathBatches : OnAddFolder(files)
  \/ \E files \in PathBatches : OnAddFolderFail(files)
  \/ NextButImport
\* The same steps on one folder of ManyFiles images, every embedding of one length.
NextManyFiles ==
  \/ \E files \in ManyBatches : OnAddFolder(files)
  \/ \E files \in ManyBatches : OnAddFolderFail(files)
  \/ \E t \in TrainIds, d \in OneDim : TrainImageLoaded(t, d)
  \/ NextButImportAndLoad

Spec == Init /\ [][Next]_vars
SpecTwoTrains == InitTwoTrains /\ [][Next]_vars
SpecTwoPredicts == InitTwoPredicts /\ [][Next]_vars
SpecLabels == Init /\ [][NextLabels]_vars
SpecPaths == Init /\ [][NextPaths]_vars
SpecManyFiles == InitManyFiles /\ [][NextManyFiles]_vars

\* Every awaited promise settles (it resolves or it rejects), and the resumption of
\* the handler that awaits it is then run by the event loop: the init effect's
\* awaits, fileToImage, tf.nextFrame, model.fit with its epochs, probsTensor.data.
Settles ==
  /\ WF_vars(InitBackendReady \/ InitModelLoaded \/ InitFail)
  /\ \A t \in TrainIds :
       /\ WF_vars((\E d \in Dims : TrainImageLoaded(t, d))
                  \/ (\E why \in ExtractErrors : TrainExtractFail(t, why)))
       /\ WF_vars(TrainFrame(t))
       /\ WF_vars(TrainEpoch(t) \/ TrainFitFail(t) \/ TrainFitDone(t))
       /\ WF_vars(TrainEpochFrame(t))
  /\ \A p \in PredIds :
       /\ WF_vars((\E d \in Dims :
                     \E probs \in UNION {[1..n -> ProbVals] : n \in 1..MaxFiles} :
                        PredictImageLoaded(p, d, probs))
                  \/ PredictDecodeFail(p) \/ PredictInferFail(p))
       /\ WF_vars(PredictDataReady(p) \/ PredictDataFail(p))
SpecSettles == InitOneEach /\ [][Next]_vars /\ Settles
\* ==================================================================== claims
TrainInFlight == {t \in TrainIds : trainRuns[t].pc # "idle"}
ClearedMsg == "Cleared training data, test image, and head model."
\* A step in which run t ends in its catch block.
TrainFailStep(t) ==
  /\ trainRuns[t].pc # "idle"
  /\ trainRuns'[t].pc = "idle"
  /\ messages' \in TrainErrors
\* A step that is an invocation of onClearAll.
ClearStep == budget'["clear"] = budget["clear"] - 1
\* Models that a completed training run produced and that are not disposed.
LiveTrainedHeads == {k \in DOMAIN heads : heads[k].idx2label # <<>> /\ ~heads[k].disposed}

\* C1: a training run invoked while another is in flight is rejected, so at most
\* one training run is ever in flight.
C1_AtMostOneTrainingRun == Cardinality(TrainInFlight) <= 1

\* C2: when a training run that was invoked with a head installed fails, that head
\* is still installed and undisposed after the failing step, and the examples and
\* the label counts are unchanged by it.
C2_FailedTrainKeepsHead ==
  [][\A t \in TrainIds :
       (TrainFailStep(t) /\ trainRuns[t].head0 # NoHead) =>
          /\ headModel' = trainRuns[t].head0
          /\ ~heads'[trainRuns[t].head0].disposed
          /\ trainFiles' = trainFiles
          /\ labelCounts' = labelCounts]_vars

\* C3: at every moment at most one trained head is live (produced and not disposed).
C3_AtMostOneLiveHead == Cardinality(LiveTrainedHeads) <= 1

\* C4: labelCounts has exactly the labels of trainFiles as keys, each mapped to the
\* number of examples carrying it; and as long as the newest message is that of
\* Clear all, the examples and the counts are empty.
C4_LabelCountsMatch ==
  /\ DOMAIN labelCounts = Range(trainFiles)
  /\ \A l \in DOMAIN labelCounts :
       labelCounts[l] = Cardinality({k \in 1..Len(trainFiles) : trainFiles[k] = l})
  /\ messages = ClearedMsg => (trainFiles = <<>> /\ labelCounts = EmptyCounts)

\* C5 as stated: Clear all empties examples and counts and leaves an installed head
\* installed and undisposed.
C5_ClearKeepsHead ==
  [][(ClearStep /\ headModel # NoHead) =>
        /\ trainFiles' = <<>>
        /\ labelCounts' = EmptyCounts
        /\ headModel' = headModel
        /\ ~heads'[headModel].disposed]_vars
\* C5 amended: Clear all empties examples and counts together and discards the
\* installed head: it is disposed and no head is installed afterwards.
C5_ClearDiscardsHead ==
  [][ClearStep =>
        /\ trainFiles' = <<>>
        /\ labelCounts' = EmptyCounts
        /\ headModel' = NoHead
        /\ (headModel # NoHead => heads'[headModel].disposed)]_vars
\* Clear all has acted on a non-empty dataset's trained head
C5_Witness ==
  /\ messages = ClearedMsg
  /\ \E k \in DOMAIN heads : heads[k].disposed /\ heads[k].idx2label # <<>>

\* C6: the label index attached to a head is the sorted distinct labels of the
\* dataset the run captured when it was invoked, and an installed prediction result
\* is keyed by exactly that index, whatever the dataset holds now.
C6_LabelIndexFrozen ==
  /\ \A k \in DOMAIN heads :
       heads[k].idx2label # <<>> => heads[k].idx2label = BuildLabelSet(heads[k].trainedOn)
  /\ pred # NoPred =>
       LET frozen == BuildLabelSet(heads[pred[1].headModel].trainedOn)
       IN /\ DOMAIN pred[1].confidences = Range(frozen)
          /\ pred[1].label \in Range(frozen)
          /\ \A k \in 1..Len(frozen) : pred[1].confidences[frozen[k]] = pred[1].probs[k]
\* a result is installed while the dataset's labels differ from the head's
C6_Witness ==
  /\ pred # NoPred
  /\ Range(trainFiles) # Range(heads[pred[1].headModel].idx2label)

\* C7: a run never goes on after an example whose embedding length differs from
\* the recorded featureDim: it has failed at that example.
C7_RunStopsAtMismatch ==
  \A t \in TrainIds :
    trainRuns[t].pc \in {"load", "frame"} =>
      \A k \in 1..Len(trainRuns[t].xs) : trainRuns[t].xs[k] = trainRuns[t].featureDim

C9_NoTensorLeft == tensors = 0

\* C10: the installed head has been fitted for all epochs on every captured example
\* and carries its label index, and the run that built it has ended; a model whose
\* run failed is never the installed one.
C10_InstalledHeadIsComplete ==
  headModel # NoHead =>
    /\ heads[headModel].epochsDone = epochs
    /\ heads[headModel].idx2label # <<>>
    /\ Len(heads[headModel].idx2label) = heads[headModel].units
    /\ heads[headModel].xShape[1] = Len(heads[headModel].trainedOn)
    /\ \A t \in TrainIds : trainRuns[t].pc \in {"fit", "epochFrame"} => trainRuns[t].model # headModel
\* a run has failed during fitting after at least one epoch, leaving no head installed
C10_Witness ==
  /\ messages = "[ERROR] train: fit"
  /\ headModel = NoHead
  /\ \E k \in DOMAIN heads :
       /\ heads[k].epochsDone >= 1
       /\ heads[k].idx2label = <<>>
       /\ \A t \in TrainIds : trainRuns[t].pc = "fit" => trainRuns[t].model # k

\* A step in which run t of onTrainHead, or run p of onPredictBtn, ends.
TrainEnds(t) == trainRuns[t].pc # "idle" /\ trainRuns'[t].pc = "idle"
PredictEnds(p) == predRuns[p].pc # "idle" /\ predRuns'[p].pc = "idle"
\* A step that is an invocation of onAddFolder.
ImportStep == budget'["import"] = budget["import"] - 1
\* What the guards of onTrainHead and onPredictBtn read is what it was.
GuardsKept ==
  /\ net' = net /\ net' # NULL
  /\ trainFiles' = trainFiles
  /\ headModel' = headModel
  /\ testFile' = testFile

\* C11: every started training run and prediction ends, provided every awaited
\* promise settles; a run that ends either installs its result or reports an error
\* message; an import, training or prediction that fails clears the loading
\* indicator, leaves its slot idle and leaves what the guards of a retry read as it
\* was, so that a retry is accepted exactly as the failed invocation was.
C11_FailureReturnsToIdle ==
  /\ \A t \in TrainIds : (trainRuns[t].pc # "idle") ~> (trainRuns[t].pc = "idle")
  /\ \A p \in PredIds : (predRuns[p].pc # "idle") ~> (predRuns[p].pc = "idle")
  /\ [][/\ \A t \in TrainIds : TrainEnds(t) =>
             \/ /\ messages' = "Training finished. You can now run predictions."
                /\ headModel' = trainRuns[t].model
                /\ loading' = NULL
             \/ /\ messages' \in TrainErrors
                /\ loading' = NULL
                /\ GuardsKept
        /\ \A p \in PredIds : PredictEnds(p) =>
             \/ /\ messages' = "Prediction"
                /\ pred' # NoPred
                /\ loading' = NULL
             \/ /\ messages' \in PredictErrors
                /\ loading' = NULL
                /\ pred' = pred
                /\ GuardsKept
        /\ (ImportStep /\ messages' = "[ERROR] folder import") =>
             /\ loading' = NULL
             /\ trainFiles' = trainFiles /\ labelCounts' = labelCounts]_vars
\* a training run has failed, nothing is running, the indicator is clear and the
\* guards of onTrainHead would accept a retry
C11_Witness ==
  /\ messages \in TrainErrors
  /\ loading = NULL
  /\ \A t \in TrainIds : trainRuns[t].pc = "idle"
  /\ \A p \in PredIds : predRuns[p].pc = "idle"
  /\ net # NULL /\ trainFiles # <<>>

\* A step that is an invocation of onTrainHead.
TrainStep == budget'["train"] = budget["train"] - 1
EmptyDatasetMsg == "No training images. Please import a folder first."

\* C12: an invocation of onTrainHead on an empty dataset starts no run and changes
\* neither the installed head, the prediction result, the dataset nor the loading
\* indicator; with the base model loaded it reports the empty dataset.
C12_EmptyDatasetRejected ==
  [][(TrainStep /\ trainFiles = <<>>) =>
        /\ net # NULL => messages' = EmptyDatasetMsg
        /\ UNCHANGED <<headModel, heads, pred, trainFiles, labelCounts, loading,
                       trainRuns, tensors>>]_vars
\* training was rejected for an empty dataset while a head is installed
C12_Witness ==
  /\ messages = EmptyDatasetMsg
  /\ headModel # NoHead
  /\ trainFiles = <<>>

\* A step that is an invocation of onPredictBtn.
PredictStep == budget'["predict"] = budget["predict"] - 1
HeadNotTrainedMsg == "Head model is not trained yet. Click 'Train head model' first."
NoTestImageMsg == "Pick a test image first."

\* C13: with the base model loaded, an invocation of onPredictBtn without an
\* installed head reports that the head is not trained (also when no test image is
\* selected either), one with a head and without a test image reports the missing
\* test image; both start no run and change neither the prediction result, the
\* head, the dataset nor the loading indicator.
C13_PredictPreconditions ==
  [][(PredictStep /\ net # NULL /\ (headModel = NoHead \/ testFile = NULL)) =>
        /\ messages' = IF headModel = NoHead THEN HeadNotTrainedMsg ELSE NoTestImageMsg
        /\ UNCHANGED <<pred, headModel, heads, trainFiles, labelCounts, loading,
                       predRuns, trainRuns, tensors>>]_vars
\* a prediction was rejected for the missing test image while an earlier result
\* is installed
C13_Witness ==
  /\ messages = NoTestImageMsg
  /\ pred # NoPred
  /\ testFile = NULL
  /\ headModel # NoHead

\* C14: while net is null (the base model is still loading, or its loading failed)
\* an invocation of onTrainHead or onPredictBtn reports that the base model is not
\* ready, starts no run and changes neither the head, the prediction result, the
\* dataset nor the loading indicator.
C14_NoBaseModelRejected ==
  [][/\ (TrainStep /\ net = NULL) =>
          /\ messages' = "Base model (MobileNet) is not ready yet."
          /\ UNCHANGED <<headModel, heads, pred, trainFiles, labelCounts, loading,
                         trainRuns, predRuns, tensors>>
     /\ (PredictStep /\ net = NULL) =>
          /\ messages' = "Base model is not ready yet."
          /\ UNCHANGED <<headModel, heads, pred, trainFiles, labelCounts, loading,
                         trainRuns, predRuns, tensors>>]_vars
\* training was rejected on a non-empty dataset after the base model failed to load
C14_Witness ==
  /\ messages = "Base model (MobileNet) is not ready yet."
  /\ initPc = "Failed"
  /\ trainFiles # <<>>

\* C15: the label index of every training run is the distinct labels of the
\* dataset it captured, strictly increasing in code-unit order (so the same label
\* set gives the same index whatever the order of the examples), its size is the
\* number of classes, and label2idx read at the i-th label gives i, counted from 0.
C15_LabelIndexBuilt ==
  \A t \in TrainIds :
    trainRuns[t].pc # "idle" =>
      LET r == trainRuns[t]
      IN /\ Range(r.labelSet) = Range(r.files)
         /\ \A i, j \in 1..Len(r.labelSet) : i < j => LexLess(r.labelSet[i], r.labelSet[j])
         /\ r.numClasses = Len(r.labelSet)
         /\ \A i \in 1..Len(r.labelSet) : ObjGet(r.label2idx, r.labelSet[i]) = i - 1

\* C16: an installed prediction result has exactly one entry per label of its
\* head's label index, the entry of the k-th label being the k-th probability, and
\* the probability vector is as long as the label index; after the report of an
\* inconsistent label mapping no result is installed.
C16_ResultMapsLabelIndex ==
  /\ pred # NoPred =>
       LET idx2label == heads[pred[1].headModel].idx2label
       IN /\ Len(pred[1].probs) = Len(idx2label)
          /\ DOMAIN pred[1].confidences = Range(idx2label)
          /\ \A k \in 1..Len(idx2label) :
               ObjGet(pred[1].confidences, idx2label[k]) = pred[1].probs[k]
  /\ messages = "[ERROR] predict: Label mapping is inconsistent" => pred = NoPred

\* C17: the top label of an installed prediction result is the label at the
\* smallest index whose probability is not below any other.
C17_TopIsFirstArgMax ==
  pred # NoPred =>
    LET probs == pred[1].probs
        idx2label == heads[pred[1].headModel].idx2label
        IsMax(k) == \A j \in 1..Len(probs) : probs[k] >= probs[j]
        first == CHOOSE k \in 1..Len(probs) : IsMax(k) /\ \A j \in 1..(k - 1) : ~IsMax(j)
    IN pred[1].label = idx2label[first]
\* a result over three classes whose greatest probability is shared by the second
\* and the third
C17_Witness ==
  /\ pred # NoPred
  /\ pred[1].probs = <<1, 2, 2>>
  /\ pred[1].label = heads[pred[1].headModel].idx2label[2]

PredictInFlight == {p \in PredIds : predRuns[p].pc # "idle"}
\* C18: at most one prediction is ever in flight: an invocation of onPredictBtn
\* while another run has not ended starts no second run.
C18_AtMostOnePrediction == Cardinality(PredictInFlight) <= 1

\* The index (from 0) of a label in a label index that holds it.
IndexIn(labelSet, lab) == (CHOOSE k \in 1..Len(labelSet) : labelSet[k] = lab) - 1
\* C19: the stacked matrices of every model built have the shapes [N, D] and
\* [N, C], N being the examples the run captured, D the embedding length and C the
\* number of classes (C = 1 included); and while a run extracts, it holds one
\* embedding and one label row per example done, the row of example k being the
\* one-hot vector of length C with its 1 at the index of that example's label.
C19_TrainingMatrices ==
  /\ \A h \in DOMAIN heads :
       /\ heads[h].xShape = <<Len(heads[h].trainedOn), heads[h].inputDim>>
       /\ heads[h].yShape = <<Len(heads[h].trainedOn), heads[h].units>>
  /\ \A t \in TrainIds :
       trainRuns[t].pc \in {"load", "frame"} =>
         LET r == trainRuns[t]
         IN /\ Len(r.xs) = Len(r.ys)
            /\ \A k \in 1..Len(r.ys) :
                 r.ys[k] = OneHotRow(IndexIn(r.labelSet, r.files[k]), r.numClasses)

\* A step in which model.fit of run t ends an epoch and reports it.
EpochReported(t) ==
  /\ trainRuns[t].pc = "fit"
  /\ trainRuns'[t].pc # "idle"
  /\ trainRuns'[t].epoch = trainRuns[t].epoch + 1
\* C20: a training run never has more than 16 examples extracted since its last
\* frame yield resolved; the step that reports an epoch leaves the run awaiting a
\* frame, and the run does nothing else before that frame resolves.
C20_YieldsDuringTraining ==
  /\ [](\A t \in TrainIds :
          trainRuns[t].pc # "idle" => trainRuns[t].unyielded <= YieldEvery)
  /\ [][\A t \in TrainIds :
          /\ EpochReported(t) =>
                /\ trainRuns'[t].pc = "epochFrame"
                /\ messages' = "Epoch"
          /\ (trainRuns[t].pc = "epochFrame" /\ trainRuns'[t] # trainRuns[t]) =>
                trainRuns'[t] = [trainRuns[t] EXCEPT !.pc = "fit"]]_vars
\* sixteen examples were extracted since the last frame, and the run awaits the next
C20_Witness ==
  \E t \in TrainIds :
    /\ trainRuns[t].pc = "frame"
    /\ trainRuns[t].unyielded = YieldEvery
    /\ trainRuns[t].i = YieldEvery

\* The non-empty segments of a path, as pairs of its first and last position.
Segments(path) ==
  {ab \in (1..Len(path)) \X (1..Len(path)) :
     /\ ab[1] <= ab[2]
     /\ \A k \in ab[1]..ab[2] : path[k] # Slash
     /\ ab[1] = 1 \/ path[ab[1] - 1] = Slash
     /\ ab[2] = Len(path) \/ path[ab[2] + 1] = Slash}
\* The name of the parent directory in a file's relative path, else "root".
ParentDirOrRoot(f) ==
  LET path == IF f.rel # <<>> THEN f.rel ELSE f.name
      segs == Segments(path)
  IN IF Cardinality(segs) < 2 THEN Root
     ELSE LET parent == CHOOSE ab \in segs :
                           Cardinality({cd \in segs : cd[1] > ab[1]}) = 1
          IN SubSeq(path, parent[1], parent[2])
\* The labels an import of files is to append: one per image, in order.
RECURSIVE ExpectedLabels(_)
ExpectedLabels(files) ==
  IF files = <<>> THEN <<>>
  ELSE (IF Head(files).type \in {"image/png", "image/jpeg"}
        THEN <<ParentDirOrRoot(Head(files))>> ELSE <<>>) \o ExpectedLabels(Tail(files))

\* C21: an import that does not fail appends, for some folder selection, one
\* example per image of it, in order, labelled with the parent directory of the
\* image's relative path or with "root" when there is none; entries that are no
\* images add nothing and change no count; an import without any image leaves
\* the examples and the counts as they were.
C21_LabelFromParentDir ==
  [][(ImportStep /\ messages' # "[ERROR] folder import") =>
        \E files \in PathBatches :
           LET labels == ExpectedLabels(files)
           IN /\ trainFiles' = trainFiles \o labels
              /\ \A l \in DOMAIN labelCounts' :
                   labelCounts'[l] = (IF l \in DOMAIN labelCounts THEN labelCounts[l] ELSE 0)
                      + Cardinality({k \in 1..Len(labels) : labels[k] = l})
              /\ DOMAIN labelCounts' = DOMAIN labelCounts \cup Range(labels)
              /\ labels = <<>> =>
                   /\ messages' = "No images found in the selected folder."
                   /\ labelCounts' = labelCounts]_vars
\* an image without a parent directory and an image under r/a were imported, and
\* a later import brought no image
C21_Witness ==
  /\ messages = "No images found in the selected folder."
  /\ trainFiles = <<Root, <<97>>>>

\* The phases of the init effect, in the order it passes through them.
PhaseOrder == <<"Uninitialized", "BackendPreparing", "BaseModelLoading", "Ready">>
PhaseRank(phase) == CHOOSE k \in 1..Len(PhaseOrder) : PhaseOrder[k] = phase
\* C22: the init effect moves from each phase to the next one only, or from one of
\* the two waiting phases to failure, and leaves neither ready nor failure; ready
\* is true only in the ready phase and then net is set; the step into the ready
\* phase sets net and ready; the step into failure reports the error and clears
\* the loading indicator, and ready is false then and ever after.
C22_InitPhasesInOrder ==
  /\ [](ready => (initPc = "Ready" /\ net # NULL))
  /\ [](initPc = "Failed" => (~ready /\ net = NULL))
  /\ [][initPc' # initPc =>
          \/ /\ initPc \in {"Uninitialized", "BackendPreparing", "BaseModelLoading"}
             /\ initPc' # "Failed"
             /\ PhaseRank(initPc') = PhaseRank(initPc) + 1
             /\ initPc' = "Ready" => (ready' /\ net' # NULL)
             /\ initPc' # "Ready" => (~ready' /\ loading' # NULL)
          \/ /\ initPc \in {"BackendPreparing", "BaseModelLoading"}
             /\ initPc' = "Failed"
             /\ messages' = "[ERROR] init"
             /\ loading' = NULL
             /\ ~ready']_vars
\* the init effect has ended in the ready phase
C22_Witness ==
  /\ initPc = "Ready"
  /\ ready
  /\ net # NULL
  /\ messages = "Ready"

\* C23: while the message of Clear all is the newest one, no training run has been
\* started since that clear (an invocation of onTrainHead pushes a message), so no
\* step installs a head: a run that was in flight at the clear installs none.
C23_NoHeadAfterClear ==
  [][messages = ClearedMsg => headModel' = NoHead]_vars

\* A step in which run p of onPredictBtn calls headModel.predict(feat): fileToImage
\* has resolved and net.infer has returned.
ForwardPassStep(p) ==
  /\ predRuns[p].pc = "load"
  /\ predRuns'[p].pc # "load"
  /\ messages' \notin {"[ERROR] predict: decode", "[ERROR] predict: infer"}
\* C24: the model a prediction passes to the forward pass is not disposed at that
\* step.
C24_ForwardPassOnLiveHead ==
  [][\A p \in PredIds :
       ForwardPassStep(p) => ~heads[predRuns[p].headModel].disposed]_vars

\* C25: an installed prediction result was computed from the test image that is
\* selected and by the head that is installed: with a result installed, a test
\* image is selected, a head is installed, and they are the result's.
C25_ResultIsCurrent ==
  pred # NoPred =>
    /\ testFile # NULL
    /\ headModel # NoHead
    /\ pred[1].testFile = testFile
    /\ pred[1].headModel = headModel

\* C26: the loading indicator is set in every state in which a training run or a
\* prediction is in flight (an import runs to its end within one step).
C26_LoadingWhileInFlight ==
  (TrainInFlight # {} \/ PredictInFlight # {}) => loading # NULL
====
